---- MODULE Spec2Model ----
(***************************************************************************)
(* Model of the ShX shell (src/tracker.go, the second package of the file: *)
(* lines 105-740).  Strings are sequences of bytes; a byte is written as a *)
(* one-character TLA+ string, and the two bytes of a two-byte rune as       *)
(* "C3" and "A9".  Go slices and strings are indexed from 0, the sequences *)
(* here from 1.                                                            *)
(*                                                                         *)
(* Three specifications share the definitions:                             *)
(*   SpecTok    parseCommand run one loop iteration at a time on a line    *)
(*              drawn from the lines of at most MaxCmd bytes;              *)
(*   SpecDisp   main's loop from the token sequence on (extraction and     *)
(*              dispatch), the token sequence drawn from the sequences of  *)
(*              at most MaxFields tokens;                                  *)
(*   Spec       the whole program: the line reader fed key by key, then    *)
(*              the tokenizer, the extraction and the dispatch.            *)
(***************************************************************************)
EXTENDS Integers, Sequences, FiniteSets, TLC

\* ------------------------------------------------------------------ bounds
MaxCmd == 4
MaxFields == 4
MaxInput == 3
MaxTabs == 3

\* ------------------------------------------------------- strings and bytes
BS == "\\"
SQ == "'"
DQ == "\""
SP == " "
TAB == "\t"
NL == "\n"
\* the vertical tab byte (0x0B)
VT == "vt"
\* the backtick byte (0x60)
BQ == "bq"

\* byte values, for the bytewise order of sort.Strings
CharCode(c) ==
  CASE c = TAB -> 9
    [] c = NL -> 10
    [] c = VT -> 11
    [] c = SP -> 32
    [] c = DQ -> 34
    [] c = "$" -> 36
    [] c = "&" -> 38
    [] c = SQ -> 39
    [] c = "1" -> 49
    [] c = "2" -> 50
    [] c = ">" -> 62
    [] c = BS -> 92
    [] c = BQ -> 96
    [] c = "a" -> 97
    [] c = "c" -> 99
    [] c = "d" -> 100
    [] c = "e" -> 101
    [] c = "f" -> 102
    [] c = "g" -> 103
    [] c = "h" -> 104
    [] c = "i" -> 105
    [] c = "k" -> 107
    [] c = "l" -> 108
    [] c = "m" -> 109
    [] c = "o" -> 111
    [] c = "p" -> 112
    [] c = "r" -> 114
    [] c = "s" -> 115
    [] c = "t" -> 116
    [] c = "v" -> 118
    [] c = "w" -> 119
    [] c = "x" -> 120
    [] c = "y" -> 121
    [] c = "A9" -> 169
    [] c = "C3" -> 195
    [] OTHER -> 0

\* strings.HasPrefix(s, p)
HasPrefix(s, p) ==
  /\ Len(p) <= Len(s)
  /\ \A k \in 1..Len(p) : s[k] = p[k]

\* mutant: the candidate is inserted whole
TrimPrefixNone(s, p) == s

\* strings.TrimPrefix(s, p)
TrimPrefix(s, p) ==
  IF HasPrefix(s, p) THEN SubSeq(s, Len(p) + 1, Len(s)) ELSE s

\* strings.Contains(s, " ")
ContainsSpace(s) == \E k \in 1..Len(s) : s[k] = SP

\* the bytes unicode.IsSpace accepts among those of the model
IsSpace(c) == c \in {SP, TAB, NL, VT}

RECURSIVE TrimLeft(_)
TrimLeft(s) ==
  IF s # <<>> /\ IsSpace(s[1]) THEN TrimLeft(Tail(s)) ELSE s

RECURSIVE TrimRight(_)
TrimRight(s) ==
  IF s # <<>> /\ IsSpace(s[Len(s)])
  THEN TrimRight(SubSeq(s, 1, Len(s) - 1)) ELSE s

\* strings.TrimSpace
TrimSpace(s) == TrimRight(TrimLeft(s))

\* a < b in the bytewise order of Go string comparison
StrLess(a, b) ==
  \/ /\ Len(a) < Len(b)
     /\ HasPrefix(b, a)
  \/ \E k \in 1..Len(a) :
       /\ k <= Len(b)
       /\ \A j \in 1..(k - 1) : a[j] = b[j]
       /\ CharCode(a[k]) < CharCode(b[k])

\* ------------------------------------------------------------- tokenizer
VARIABLES command, i, current, result, inSingleQuote, inDoubleQuote,
          escaped, tpc, retok, reparsed

tokVars == <<command, i, current, result, inSingleQuote, inDoubleQuote,
             escaped, tpc, retok, reparsed>>

\* the bytes the lines of SpecTok are made of
TokChars == {"a", SP, TAB, BS, SQ, DQ, "$", BQ, NL}

RECURSIVE SeqsUpTo(_, _)
SeqsUpTo(S, n) ==
  IF n = 0 THEN {<<>>}
  ELSE LET shorter == SeqsUpTo(S, n - 1)
           longest == {t \in shorter : Len(t) = n - 1}
       IN shorter \cup {Append(s, x) : s \in longest, x \in S}

\* mutant: the dollar sign is missing from the escapable bytes
DQEscapableNoDollar == {BQ, DQ, BS, NL}

\* the bytes a backslash escapes inside double quotes
DQEscapable == {"$", BQ, DQ, BS, NL}

\* the state of parseCommand's loop
ParseState0 ==
  [current |-> <<>>, result |-> <<>>, inSingleQuote |-> FALSE,
   inDoubleQuote |-> FALSE, escaped |-> FALSE]

\* one iteration of parseCommand's loop on byte c
ParseStep(st, c) ==
  IF st.escaped
  THEN [st EXCEPT
          !.current = IF st.inDoubleQuote /\ c \notin DQEscapable
                      THEN st.current \o <<BS, c>>
                      ELSE Append(st.current, c),
          !.escaped = FALSE]
  ELSE CASE c = BS ->
              IF st.inSingleQuote
              THEN [st EXCEPT !.current = Append(st.current, c)]
              ELSE [st EXCEPT !.escaped = TRUE]
         [] c = SQ ->
              IF ~st.inDoubleQuote
              THEN [st EXCEPT !.inSingleQuote = ~st.inSingleQuote]
              ELSE [st EXCEPT !.current = Append(st.current, c)]
         [] c = DQ ->
              IF ~st.inSingleQuote
              THEN [st EXCEPT !.inDoubleQuote = ~st.inDoubleQuote]
              ELSE [st EXCEPT !.current = Append(st.current, c)]
         [] c = SP ->
              IF ~st.inSingleQuote /\ ~st.inDoubleQuote
              THEN IF Len(st.current) > 0
                   THEN [st EXCEPT !.result = Append(st.result, st.current),
                                   !.current = <<>>]
                   ELSE st
              ELSE [st EXCEPT !.current = Append(st.current, c)]
         [] OTHER -> [st EXCEPT !.current = Append(st.current, c)]

\* mutant: the pending token is not flushed at the end of the line
ParseFlushNone(st) == st.result

\* the flush after the loop and the return value
ParseFlush(st) ==
  IF Len(st.current) > 0 THEN Append(st.result, st.current) ELSE st.result

RECURSIVE ParseFrom(_, _, _)
ParseFrom(cmd, k, st) ==
  IF k > Len(cmd) THEN st ELSE ParseFrom(cmd, k + 1, ParseStep(st, cmd[k]))

parseCommand(cmd) == ParseFlush(ParseFrom(cmd, 1, ParseState0))

\* ----------------------------------------------------------- builtin table
builtinCMDs ==
  << <<"e", "x", "i", "t">>,
     <<"e", "c", "h", "o">>,
     <<"t", "y", "p", "e">>,
     <<"p", "w", "d">>,
     <<"c", "d">>,
     <<"c", "l", "e", "a", "r">>,
     <<"l", "s">>,
     <<"c", "a", "t">>,
     <<"c", "p">>,
     <<"m", "v">>,
     <<"r", "m">>,
     <<"m", "k", "d", "i", "r">>,
     <<"r", "m", "d", "i", "r">> >>

\* the keys of main's builtins map
BuiltinNames == {builtinCMDs[k] : k \in 1..Len(builtinCMDs)}

\* ------------------------------------------------------ completion engine
\* the sorting of sort.Strings, as an insertion sort on the bytewise order
RECURSIVE InsertSorted(_, _)
InsertSorted(s, x) ==
  IF s = <<>> THEN <<x>>
  ELSE IF StrLess(x, s[1]) THEN <<x>> \o s
       ELSE <<s[1]>> \o InsertSorted(Tail(s), x)

RECURSIVE InsertionSort(_)
InsertionSort(s) ==
  IF s = <<>> THEN <<>> ELSE InsertSorted(InsertionSort(Tail(s)), s[1])

\* mutant: the matches are left in the order they were gathered
SortStringsNone(s) == s

\* sort.Strings(matches)
SortStrings(s) == InsertionSort(s)

\* longestCommonPrefix's inner loop: shrink prefix until s starts with it
RECURSIVE ShrinkTo(_, _)
ShrinkTo(prefix, s) ==
  IF HasPrefix(s, prefix) THEN prefix
  ELSE IF prefix = <<>> THEN <<>>
       ELSE ShrinkTo(SubSeq(prefix, 1, Len(prefix) - 1), s)

RECURSIVE LcpLoop(_, _)
LcpLoop(prefix, strs) ==
  IF strs = <<>> THEN prefix
  ELSE LcpLoop(ShrinkTo(prefix, strs[1]), Tail(strs))

\* mutant: the first string is returned as it is
longestCommonPrefixFirst(strs) ==
  IF Len(strs) = 0 THEN <<>> ELSE strs[1]

\* longestCommonPrefix
longestCommonPrefix(strs) ==
  IF Len(strs) = 0 THEN <<>> ELSE LcpLoop(strs[1], Tail(strs))

\* autocomplete's loop over builtinCMDs
BuiltinMatches(prefix) ==
  SelectSeq(builtinCMDs, LAMBDA cmd : HasPrefix(cmd, prefix) /\ cmd # prefix)

\* mutant: a name is appended every time it is met
RECURSIVE FileMatchesNoDedup(_, _, _)
FileMatchesNoDedup(files, prefix, matches) ==
  IF files = <<>> THEN matches
  ELSE LET file == files[1]
           name == file.name
           keep == /\ ~file.isDir
                   /\ HasPrefix(name, prefix)
                   /\ name # prefix
       IN FileMatchesNoDedup(Tail(files), prefix,
                             IF keep THEN Append(matches, name) ELSE matches)

\* autocomplete's loop over the entries of one directory (in the order
\* os.ReadDir returns them), appending the names not yet found
RECURSIVE FileMatches(_, _, _)
FileMatches(files, prefix, matches) ==
  IF files = <<>> THEN matches
  ELSE LET file == files[1]
           name == file.name
           keep == /\ ~file.isDir
                   /\ HasPrefix(name, prefix)
                   /\ name # prefix
                   /\ \A k \in 1..Len(matches) : matches[k] # name
       IN FileMatches(Tail(files), prefix,
                      IF keep THEN Append(matches, name) ELSE matches)

\* autocomplete's loop over "." and the directories of PATH; a directory
\* os.ReadDir fails on is skipped
RECURSIVE PathMatches(_, _, _)
PathMatches(ds, prefix, matches) ==
  IF ds = <<>> THEN matches
  ELSE PathMatches(Tail(ds), prefix,
                   IF ds[1].readable
                   THEN FileMatches(ds[1].files, prefix, matches)
                   ELSE matches)

NoSuggestion == [result |-> <<>>, matches |-> <<>>]

\* autocomplete(prefix, tabCount) in the environment ds
autocomplete(prefix, tabCount, ds) ==
  IF prefix = <<>> THEN NoSuggestion
  ELSE LET fromBuiltins == BuiltinMatches(prefix)
           gathered == IF Len(fromBuiltins) = 0
                       THEN PathMatches(ds, prefix, <<>>)
                       ELSE fromBuiltins
           matches == SortStrings(gathered)
           lcp == longestCommonPrefix(matches)
       IN IF Len(gathered) = 0 THEN NoSuggestion
          ELSE IF Len(matches) = 1
               THEN [result |-> TrimPrefix(matches[1], prefix),
                     matches |-> matches]
          ELSE IF Len(lcp) > Len(prefix)
               THEN [result |-> SubSeq(lcp, Len(prefix) + 1, Len(lcp)),
                     matches |-> matches]
          ELSE IF tabCount > 1
               THEN [result |-> <<>>, matches |-> matches]
          ELSE NoSuggestion

\* exec.LookPath: an executable regular file of that name in a directory of
\* PATH (ds[1] is ".", which autocomplete adds and LookPath does not search)
LookPath(name, ds) ==
  \E d \in 2..Len(ds) :
    /\ ds[d].readable
    /\ \E k \in 1..Len(ds[d].files) :
         /\ ds[d].files[k].name = name
         /\ ~ds[d].files[k].isDir
         /\ ds[d].files[k].exec

\* --------------------------------------------------- redirection extractor
OpOut == <<">">>
OpOut1 == <<"1", ">">>
OpApp == <<">", ">">>
OpApp1 == <<"1", ">", ">">>
OpErr == <<"2", ">">>
OpErrApp == <<"2", ">", ">">>

RedirState0 ==
  [fields |-> <<>>, stdoutFile |-> <<>>, stderrFile |-> <<>>,
   stdoutAppend |-> FALSE, stderrAppend |-> FALSE, syntaxError |-> FALSE]

\* mutant: the rejection prints no message
RedirRejectSilent == RedirState0

\* the rejection: the message on os.Stderr and the empty return values
RedirReject == [RedirState0 EXCEPT !.syntaxError = TRUE]

\* processRedirectionOperators' loop from index k on
RECURSIVE RedirLoop(_, _, _)
RedirLoop(fields, k, st) ==
  IF k > Len(fields) THEN st
  ELSE LET token == fields[k]
       IN CASE token \in {OpApp, OpApp1} ->
                 IF k + 1 > Len(fields) THEN RedirReject
                 ELSE RedirLoop(fields, k + 2,
                        [st EXCEPT !.stdoutFile = fields[k + 1],
                                   !.stdoutAppend = TRUE])
            [] token \in {OpOut, OpOut1} ->
                 IF k + 1 > Len(fields) THEN RedirReject
                 ELSE RedirLoop(fields, k + 2,
                        [st EXCEPT !.stdoutFile = fields[k + 1]])
            [] token = OpErr ->
                 IF k + 1 > Len(fields) THEN RedirReject
                 ELSE RedirLoop(fields, k + 2,
                        [st EXCEPT !.stderrFile = fields[k + 1]])
            [] token = OpErrApp ->
                 IF k + 1 > Len(fields) THEN RedirReject
                 ELSE RedirLoop(fields, k + 2,
                        [st EXCEPT !.stderrFile = fields[k + 1],
                                   !.stderrAppend = TRUE])
            [] OTHER ->
                 RedirLoop(fields, k + 1,
                        [st EXCEPT !.fields = Append(st.fields, token)])

\* mutant: the loop starts at the second token
processRedirectionOperatorsSkip(fields) == RedirLoop(fields, 2, RedirState0)

processRedirectionOperators(fields) == RedirLoop(fields, 1, RedirState0)

\* ------------------------------------------------------------- shell state
VARIABLES pc, exitKind, termRaw, eof, input, lastTabPrefix, tabPressCount,
          dirs, lastKey, bell, shown, fields, tokens, stdoutFile, stderrFile,
          stdoutAppend, stderrAppend, osStdout, osStderr, openFiles, opened,
          errlog, spawned, handler, childOut, childErr, oldStdout, oldStderr,
          prevInput, openFailed, readFailed, tabRun

\* the line reader: terminal mode, input stream, buffer, Completion State,
\* the last key with the buffer it was pressed on, and what it wrote (bell,
\* candidate list); readFailed: ReadRune has returned an error and the loop
\* is about to `continue`; tabRun: how many of the latest keys in a row were
\* Tab presses that left the buffer as it is now (counted up to MaxTabs)
readerVars == <<termRaw, eof, input, lastTabPrefix, tabPressCount, lastKey,
                prevInput, bell, shown, readFailed, tabRun>>

\* main's locals and the dispatcher: the token sequence before and after
\* extraction, the Redirection Spec, os.Stdout and os.Stderr, the open target
\* files, and what the command did (files opened, the stream whose target
\* failed to open, messages, spawn, handler)
dispVars == <<fields, tokens, stdoutFile, stderrFile, stdoutAppend,
              stderrAppend, osStdout, osStderr, openFiles, opened, errlog,
              spawned, handler, childOut, childErr, oldStdout, oldStderr,
              openFailed>>

shellVars == <<pc, exitKind, dirs, readerVars, dispVars>>

vars == <<tokVars, shellVars>>

\* the terminal's two streams, and a target file as a stream
TTYOut == [kind |-> "tty", name |-> <<"1">>]
TTYErr == [kind |-> "tty", name |-> <<"2">>]
File(n) == [kind |-> "file", name |-> n]
NoStream == [kind |-> "none", name |-> <<>>]

\* directory entries
Exe(n) == [name |-> n, isDir |-> FALSE, exec |-> TRUE]
Plain(n) == [name |-> n, isDir |-> FALSE, exec |-> FALSE]
Dir(n) == [name |-> n, isDir |-> TRUE, exec |-> TRUE]
Readable(fs) == [readable |-> TRUE, files |-> fs]
Unreadable == [readable |-> FALSE, files |-> <<>>]

\* the environments: "." followed by the one directory of PATH
EnvEmpty == <<Readable(<<>>), Readable(<<>>)>>
EnvAmbiguous ==
  <<Readable(<<Plain(<<"x", "c">>)>>),
    Readable(<<Exe(<<"x">>), Exe(<<"x", "c">>), Exe(<<"x", "e">>)>>)>>
EnvSingle ==
  <<Unreadable,
    Readable(<<Exe(<<"x", "c", "e">>), Dir(<<"x", "c", "x">>),
               Exe(<<SP, "c">>), Exe(<<VT, "c">>)>>)>>
EnvPartial ==
  <<Readable(<<Plain(<<"e", "c">>)>>),
    Readable(<<Exe(<<"x", "c", "e">>), Exe(<<"x", "c", "x">>)>>)>>

EnvChoices == {EnvEmpty, EnvAmbiguous, EnvSingle, EnvPartial}
DispEnvChoices == {EnvEmpty, EnvAmbiguous}

\* the runes typed at the line reader, as their UTF-8 bytes
Runes ==
  {<<"e">>, <<"c">>, <<"x">>, <<SP>>, <<VT>>, <<">">>, <<"C3", "A9">>}

\* the tokens of the token sequences of SpecDisp
WEcho == <<"e", "c", "h", "o">>
WExit == <<"e", "x", "i", "t">>
WX == <<"x">>
TokDup == <<"2", ">", "&", "1">>
DispTokens ==
  {WEcho, WExit, WX, OpOut, OpOut1, OpApp, OpApp1, OpErr, OpErrApp, TokDup}

\* everything a command line leaves behind is cleared for the next one
LineCleared ==
  /\ fields = <<>>
  /\ tokens = <<>>
  /\ stdoutFile = <<>>
  /\ stderrFile = <<>>
  /\ stdoutAppend = FALSE
  /\ stderrAppend = FALSE
  /\ opened = <<>>
  /\ errlog = <<>>
  /\ spawned = FALSE
  /\ handler = <<>>
  /\ childOut = NoStream
  /\ childErr = NoStream
  /\ oldStdout = NoStream
  /\ oldStderr = NoStream
  /\ openFailed = "none"

ShellStart ==
  /\ pc = "loop"
  /\ exitKind = "none"
  /\ termRaw = FALSE
  /\ eof = FALSE
  /\ input = <<>>
  /\ lastTabPrefix = <<>>
  /\ tabPressCount = 0
  /\ lastKey = "none"
  /\ prevInput = <<>>
  /\ readFailed = FALSE
  /\ tabRun = 0
  /\ bell = FALSE
  /\ shown = <<>>
  /\ osStdout = TTYOut
  /\ osStderr = TTYErr
  /\ openFiles = {}
  /\ LineCleared

\* ------------------------------------------------- tokenizer, stepwise
TokState ==
  [current |-> current, result |-> result, inSingleQuote |-> inSingleQuote,
   inDoubleQuote |-> inDoubleQuote, escaped |-> escaped]

TokIdle ==
  /\ command = <<>>
  /\ i = 1
  /\ current = <<>>
  /\ result = <<>>
  /\ inSingleQuote = FALSE
  /\ inDoubleQuote = FALSE
  /\ escaped = FALSE
  /\ tpc = "idle"
  /\ retok = <<>>
  /\ reparsed = <<>>

\* parseCommand's loop body, one byte of the line
ParseLoop ==
  /\ tpc = "scan"
  /\ i <= Len(command)
  /\ LET st == ParseStep(TokState, command[i])
     IN /\ current' = st.current
        /\ result' = st.result
        /\ inSingleQuote' = st.inSingleQuote
        /\ inDoubleQuote' = st.inDoubleQuote
        /\ escaped' = st.escaped
  /\ i' = i + 1
  /\ UNCHANGED <<command, tpc, retok, reparsed, shellVars>>

\* the end of parseCommand: flush and return
ParseReturn ==
  /\ tpc = "scan"
  /\ i > Len(command)
  /\ result' = ParseFlush(TokState)
  /\ tpc' = "done"
  /\ UNCHANGED <<command, i, current, inSingleQuote, inDoubleQuote, escaped,
                 retok, reparsed, shellVars>>

\* parseCommand applied again to one of the tokens it returned
Retokenize ==
  /\ tpc = "done"
  /\ \E k \in 1..Len(result) :
       /\ retok' = result[k]
       /\ reparsed' = parseCommand(result[k])
  /\ tpc' = "retok"
  /\ UNCHANGED <<command, i, current, result, inSingleQuote, inDoubleQuote,
                 escaped, shellVars>>

\* ----------------------------------------------------------------- main
\* main: printPrompt at the top of the loop; the locals of the previous
\* iteration are gone
PrintPrompt ==
  /\ pc = "loop"
  /\ pc' = "prompt"
  /\ fields' = <<>>
  /\ tokens' = <<>>
  /\ stdoutFile' = <<>>
  /\ stderrFile' = <<>>
  /\ stdoutAppend' = FALSE
  /\ stderrAppend' = FALSE
  /\ opened' = <<>>
  /\ errlog' = <<>>
  /\ spawned' = FALSE
  /\ handler' = <<>>
  /\ childOut' = NoStream
  /\ childErr' = NoStream
  /\ oldStdout' = NoStream
  /\ oldStderr' = NoStream
  /\ input' = <<>>
  /\ lastKey' = "none"
  /\ prevInput' = <<>>
  /\ bell' = FALSE
  /\ shown' = <<>>
  /\ openFailed' = "none"
  /\ tabRun' = 0
  /\ UNCHANGED <<exitKind, dirs, termRaw, eof, lastTabPrefix, tabPressCount,
                 readFailed, osStdout, osStderr, openFiles, tokVars>>

\* readInputWithAutocomplete's entry: term.MakeRaw, panic when it fails
StartRead ==
  /\ pc = "prompt"
  /\ \E ok \in BOOLEAN :
       IF ok
       THEN /\ termRaw' = TRUE
            /\ pc' = "reading"
            /\ exitKind' = exitKind
       ELSE /\ termRaw' = termRaw
            /\ pc' = "exited"
            /\ exitKind' = "panic"
  /\ input' = <<>>
  /\ UNCHANGED <<dirs, eof, lastTabPrefix, tabPressCount, lastKey, prevInput,
                 bell, shown, readFailed, tabRun, dispVars, tokVars>>

\* r.ReadRune returns an error and the message is printed. A stream that
\* has ended stays ended (every later read fails too); any other read may
\* fail once, or be the one that finds the end of the stream
ReadError ==
  /\ pc = "reading"
  /\ ~readFailed
  /\ readFailed' = TRUE
  /\ eof' \in IF eof THEN {TRUE} ELSE BOOLEAN
  /\ errlog' = IF errlog # <<>> /\ errlog[Len(errlog)].msg = "readerr"
               THEN errlog
               ELSE Append(errlog, [msg |-> "readerr", dest |-> osStderr])
  /\ UNCHANGED <<pc, exitKind, dirs, termRaw, input, lastTabPrefix,
                 tabPressCount, lastKey, prevInput, bell, shown, tabRun,
                 fields, tokens,
                 stdoutFile, stderrFile, stdoutAppend, stderrAppend, osStdout,
                 osStderr, openFiles, opened, spawned, handler, childOut,
                 childErr, oldStdout, oldStderr, openFailed, tokVars>>

\* the `continue` after a failed read: back to r.ReadRune
ReadRetry ==
  /\ pc = "reading"
  /\ readFailed
  /\ readFailed' = FALSE
  /\ UNCHANGED <<pc, exitKind, dirs, termRaw, eof, input, lastTabPrefix,
                 tabPressCount, lastKey, prevInput, bell, shown, tabRun,
                 dispVars, tokVars>>

\* case '\x03': restore the terminal and exit
KeyInterrupt ==
  /\ pc = "reading"
  /\ ~eof
  /\ ~readFailed
  /\ termRaw' = FALSE
  /\ pc' = "exited"
  /\ exitKind' = "interrupt"
  /\ lastKey' = "interrupt"
  /\ prevInput' = input
  /\ tabRun' = 0
  /\ UNCHANGED <<dirs, eof, input, lastTabPrefix, tabPressCount, bell, shown,
                 readFailed, dispVars, tokVars>>

\* mutant: the return leaves the terminal in raw mode
KeyEnterNoRestore ==
  /\ pc = "reading"
  /\ ~eof
  /\ ~readFailed
  /\ tabPressCount' = 0
  /\ lastTabPrefix' = <<>>
  /\ termRaw' = termRaw
  /\ pc' = "line"
  /\ lastKey' = "enter"
  /\ prevInput' = input
  /\ bell' = FALSE
  /\ shown' = <<>>
  /\ tabRun' = 0
  /\ UNCHANGED <<exitKind, dirs, eof, input, readFailed, dispVars, tokVars>>

\* case '\r', '\n': reset the Completion State and return the buffer; the
\* deferred term.Restore runs on the return
KeyEnter ==
  /\ pc = "reading"
  /\ ~eof
  /\ ~readFailed
  /\ tabPressCount' = 0
  /\ lastTabPrefix' = <<>>
  /\ termRaw' = FALSE
  /\ pc' = "line"
  /\ lastKey' = "enter"
  /\ prevInput' = input
  /\ bell' = FALSE
  /\ shown' = <<>>
  /\ tabRun' = 0
  /\ UNCHANGED <<exitKind, dirs, eof, input, readFailed, dispVars, tokVars>>

\* mutant: Backspace leaves the Completion State as it is
KeyBackspaceNoReset ==
  /\ pc = "reading"
  /\ ~eof
  /\ ~readFailed
  /\ input' = IF Len(input) > 0 THEN SubSeq(input, 1, Len(input) - 1)
              ELSE input
  /\ lastKey' = "backspace"
  /\ prevInput' = input
  /\ bell' = FALSE
  /\ shown' = <<>>
  /\ tabRun' = 0
  /\ UNCHANGED <<pc, exitKind, dirs, termRaw, eof, readFailed, tabPressCount,
                 lastTabPrefix, dispVars, tokVars>>

\* case '\x7F': drop the last byte of the buffer
KeyBackspace ==
  /\ pc = "reading"
  /\ ~eof
  /\ ~readFailed
  /\ input' = IF Len(input) > 0 THEN SubSeq(input, 1, Len(input) - 1)
              ELSE input
  /\ tabPressCount' = 0
  /\ lastTabPrefix' = <<>>
  /\ lastKey' = "backspace"
  /\ prevInput' = input
  /\ bell' = FALSE
  /\ shown' = <<>>
  /\ tabRun' = 0
  /\ UNCHANGED <<pc, exitKind, dirs, termRaw, eof, readFailed, dispVars,
                 tokVars>>

\* default: append the rune's bytes to the buffer
KeyDefault ==
  /\ pc = "reading"
  /\ ~eof
  /\ ~readFailed
  /\ Len(input) < MaxInput
  /\ \E rn \in Runes : input' = input \o rn
  /\ tabPressCount' = 0
  /\ lastTabPrefix' = <<>>
  /\ lastKey' = "rune"
  /\ prevInput' = input
  /\ bell' = FALSE
  /\ shown' = <<>>
  /\ tabRun' = 0
  /\ UNCHANGED <<pc, exitKind, dirs, termRaw, eof, readFailed, dispVars,
                 tokVars>>

\* case '\t'
KeyTab ==
  /\ pc = "reading"
  /\ ~eof
  /\ ~readFailed
  /\ lastKey' = "tab"
  /\ prevInput' = input
  /\ LET prefix == input
     IN IF ContainsSpace(prefix)
        THEN /\ tabPressCount' = 0
             /\ lastTabPrefix' = <<>>
             /\ input' = input
             /\ bell' = FALSE
             /\ shown' = <<>>
        ELSE LET count == IF prefix # lastTabPrefix THEN 0 ELSE tabPressCount
                 r == autocomplete(prefix, count + 1, dirs)
             IN /\ count < MaxTabs
                /\ IF Len(r.matches) > 1 /\ count + 1 > 1 /\ r.result = <<>>
                   THEN /\ shown' = r.matches
                        /\ bell' = FALSE
                        /\ input' = input
                        /\ tabPressCount' = count + 1
                        /\ lastTabPrefix' = prefix
                   ELSE IF r.result # <<>>
                   THEN /\ input' = IF Len(r.matches) = 1
                                    THEN input \o r.result \o <<SP>>
                                    ELSE input \o r.result
                        /\ tabPressCount' = 0
                        /\ lastTabPrefix' = <<>>
                        /\ bell' = FALSE
                        /\ shown' = <<>>
                   ELSE /\ bell' = TRUE
                        /\ shown' = <<>>
                        /\ input' = input
                        /\ tabPressCount' = count + 1
                        /\ lastTabPrefix' = prefix
  /\ tabRun' = IF input' # input THEN 0
               ELSE IF tabRun < MaxTabs THEN tabRun + 1 ELSE MaxTabs
  /\ UNCHANGED <<pc, exitKind, dirs, termRaw, eof, readFailed, dispVars,
                 tokVars>>

\* main: strings.TrimSpace and parseCommand, with the two `continue`s
ParseLine ==
  /\ pc = "line"
  /\ LET trimmed == TrimSpace(input)
         parsed == IF trimmed = <<>> THEN <<>> ELSE parseCommand(trimmed)
     IN /\ input' = trimmed
        /\ fields' = parsed
        /\ tokens' = parsed
        /\ pc' = IF Len(parsed) = 0 THEN "loop" ELSE "fields"
  /\ UNCHANGED <<exitKind, dirs, termRaw, eof, lastTabPrefix, tabPressCount,
                 lastKey, prevInput, bell, shown, readFailed, tabRun,
                 stdoutFile, stderrFile, stdoutAppend,
                 stderrAppend, osStdout, osStderr, openFiles, opened, errlog,
                 spawned, handler, childOut, childErr, oldStdout, oldStderr,
                 openFailed, tokVars>>

\* the lines that name a command and give it both a standard output and a
\* standard error target: five tokens
TwoTargetLines ==
  {<<c, o1, WX, o2, WEcho>> :
     c \in {WEcho, WExit, WX},
     o1 \in {OpOut, OpOut1, OpApp, OpApp1},
     o2 \in {OpErr, OpErrApp}}

\* the reader and the tokenizer together, seen from the dispatcher: any
\* non-empty token sequence
DrawFields ==
  /\ pc = "prompt"
  /\ \E fs \in SeqsUpTo(DispTokens, MaxFields) \cup TwoTargetLines :
       /\ fs # <<>>
       /\ fields' = fs
       /\ tokens' = fs
  /\ pc' = "fields"
  /\ UNCHANGED <<exitKind, dirs, readerVars, stdoutFile, stderrFile,
                 stdoutAppend, stderrAppend, osStdout, osStderr, openFiles,
                 opened, errlog, spawned, handler, childOut, childErr,
                 oldStdout, oldStderr, openFailed, tokVars>>

\* main: processRedirectionOperators and the `continue` on no fields left
Extract ==
  /\ pc = "fields"
  /\ LET r == processRedirectionOperators(fields)
     IN /\ fields' = r.fields
        /\ stdoutFile' = r.stdoutFile
        /\ stderrFile' = r.stderrFile
        /\ stdoutAppend' = r.stdoutAppend
        /\ stderrAppend' = r.stderrAppend
        /\ errlog' = IF r.syntaxError
                     THEN Append(errlog, [msg |-> "syntax", dest |-> osStderr])
                     ELSE errlog
        /\ pc' = IF Len(r.fields) = 0 THEN "loop" ELSE "dispatch"
  /\ UNCHANGED <<exitKind, dirs, readerVars, tokens, osStdout, osStderr,
                 openFiles, opened, spawned, handler, childOut, childErr,
                 oldStdout, oldStderr, openFailed, tokVars>>

\* ------------------------------------------------------------- dispatcher
Msg(m, d) == [msg |-> m, dest |-> d]

\* an open target file
Handle(st, n) == [stream |-> st, name |-> n]

\* mutant: the open error is printed on the standard output
OpenErrorOnStdout(m) == Msg(m, osStdout)

\* fmt.Fprintln(os.Stderr, "Error opening file for ... redirection:", err)
OpenError(m) == Msg(m, osStderr)

\* executeBuiltinWithRedirection up to the call of the handler: the targets
\* are opened (each open may fail) and os.Stdout, os.Stderr are replaced; on
\* a failed open the message is printed and the deferred functions restore
\* the streams and close what was opened
ExecuteBuiltin ==
  /\ pc = "dispatch"
  /\ fields[1] \in BuiltinNames
  /\ oldStdout' = osStdout
  /\ oldStderr' = osStderr
  /\ \E okOut, okErr \in BOOLEAN :
          IF stdoutFile # <<>> /\ ~okOut
          THEN /\ errlog' = Append(errlog, OpenError("openout"))
               /\ openFailed' = "stdout"
               /\ pc' = "loop"
               /\ UNCHANGED <<osStdout, osStderr, openFiles, opened, handler>>
          ELSE LET out1 == IF stdoutFile # <<>> THEN File(stdoutFile)
                           ELSE osStdout
                   opened1 == IF stdoutFile # <<>>
                              THEN Append(opened, stdoutFile) ELSE opened
                   files1 == IF stdoutFile # <<>>
                             THEN openFiles \cup {Handle("stdout", stdoutFile)}
                             ELSE openFiles
               IN IF stderrFile # <<>> /\ ~okErr
                  THEN /\ errlog' = Append(errlog, OpenError("openerr"))
                       /\ openFailed' = "stderr"
                       /\ pc' = "loop"
                       /\ osStdout' = osStdout
                       /\ osStderr' = osStderr
                       /\ openFiles' = openFiles
                       /\ opened' = opened1
                       /\ handler' = handler
                  ELSE /\ osStdout' = out1
                       /\ osStderr' = IF stderrFile # <<>>
                                      THEN File(stderrFile) ELSE osStderr
                       /\ openFiles' = IF stderrFile # <<>>
                                       THEN files1 \cup {Handle("stderr", stderrFile)}
                                       ELSE files1
                       /\ opened' = IF stderrFile # <<>>
                                    THEN Append(opened1, stderrFile)
                                    ELSE opened1
                       /\ handler' = fields[1]
                       /\ errlog' = errlog
                       /\ openFailed' = "none"
                       /\ pc' = "handler"
  /\ UNCHANGED <<exitKind, dirs, readerVars, fields, tokens, stdoutFile,
                 stderrFile, stdoutAppend, stderrAppend, spawned, childOut,
                 childErr, tokVars>>

\* exitHandler: os.Exit(0) inside the handler call
ExitHandler ==
  /\ pc = "handler"
  /\ handler = WExit
  /\ pc' = "exited"
  /\ exitKind' = "exit"
  /\ UNCHANGED <<dirs, readerVars, dispVars, tokVars>>

\* mutant: the handler returns and nothing is restored or closed
HandlerReturnNoRestore ==
  /\ pc = "handler"
  /\ handler # WExit
  /\ pc' = "loop"
  /\ UNCHANGED <<exitKind, dirs, readerVars, fields, tokens, stdoutFile,
                 stderrFile, stdoutAppend, stderrAppend, opened, errlog,
                 spawned, handler, childOut, childErr, oldStdout, oldStderr,
                 openFailed, osStdout, osStderr, openFiles, tokVars>>

\* any other handler returns; executeBuiltinWithRedirection's deferred
\* functions put os.Stdout and os.Stderr back and close the target files
HandlerReturn ==
  /\ pc = "handler"
  /\ handler # WExit
  /\ osStdout' = IF stdoutFile # <<>> THEN oldStdout ELSE osStdout
  /\ osStderr' = IF stderrFile # <<>> THEN oldStderr ELSE osStderr
  /\ openFiles' = {}
  /\ pc' = "loop"
  /\ UNCHANGED <<exitKind, dirs, readerVars, fields, tokens, stdoutFile,
                 stderrFile, stdoutAppend, stderrAppend, opened, errlog,
                 spawned, handler, childOut, childErr, oldStdout, oldStderr,
                 openFailed, tokVars>>

\* executeExternalWithRedirection up to cmd.Run (executeCommand when no
\* target is set): lookup, outputError, the opens, the spawn
ExecuteExternal ==
  /\ pc = "dispatch"
  /\ fields[1] \notin BuiltinNames
  /\ \E okOut, okErr \in BOOLEAN :
       LET found == LookPath(fields[1], dirs)
       IN IF stdoutFile = <<>> /\ stderrFile = <<>>
          THEN \* executeCommand
               IF found
               THEN /\ spawned' = TRUE
                    /\ childOut' = osStdout
                    /\ childErr' = osStderr
                    /\ pc' = "child"
                    /\ UNCHANGED <<errlog, openFiles, opened, openFailed>>
               ELSE /\ errlog' = Append(errlog, Msg("notfound", osStdout))
                    /\ pc' = "loop"
                    /\ UNCHANGED <<spawned, childOut, childErr, openFiles,
                                   opened, openFailed>>
          ELSE IF ~found
          THEN \* outputError
               /\ IF stderrFile # <<>>
                  THEN IF okErr
                       THEN /\ errlog' = Append(errlog,
                                           Msg("notfound", File(stderrFile)))
                            /\ opened' = Append(opened, stderrFile)
                            /\ openFailed' = "none"
                       ELSE /\ errlog' = Append(errlog,
                                           OpenError("openerr"))
                            /\ opened' = opened
                            /\ openFailed' = "stderr"
                  ELSE /\ errlog' = Append(errlog, Msg("notfound", osStderr))
                       /\ opened' = opened
                       /\ openFailed' = "none"
               /\ pc' = "loop"
               /\ UNCHANGED <<spawned, childOut, childErr, openFiles>>
          ELSE IF stdoutFile # <<>> /\ ~okOut
          THEN /\ errlog' = Append(errlog, OpenError("openout"))
               /\ openFailed' = "stdout"
               /\ pc' = "loop"
               /\ UNCHANGED <<spawned, childOut, childErr, openFiles, opened>>
          ELSE LET opened1 == IF stdoutFile # <<>>
                              THEN Append(opened, stdoutFile) ELSE opened
                   files1 == IF stdoutFile # <<>>
                             THEN openFiles \cup {Handle("stdout", stdoutFile)}
                             ELSE openFiles
               IN IF stderrFile # <<>> /\ ~okErr
                  THEN /\ errlog' = Append(errlog, OpenError("openerr"))
                       /\ opened' = opened1
                       /\ openFailed' = "stderr"
                       /\ pc' = "loop"
                       /\ UNCHANGED <<spawned, childOut, childErr, openFiles>>
                  ELSE /\ childOut' = IF stdoutFile # <<>>
                                      THEN File(stdoutFile) ELSE osStdout
                       /\ childErr' = IF stderrFile # <<>>
                                      THEN File(stderrFile) ELSE osStderr
                       /\ openFiles' = IF stderrFile # <<>>
                                       THEN files1 \cup {Handle("stderr", stderrFile)}
                                       ELSE files1
                       /\ opened' = IF stderrFile # <<>>
                                    THEN Append(opened1, stderrFile)
                                    ELSE opened1
                       /\ spawned' = TRUE
                       /\ errlog' = errlog
                       /\ openFailed' = "none"
                       /\ pc' = "child"
  /\ UNCHANGED <<exitKind, dirs, readerVars, fields, tokens, stdoutFile,
                 stderrFile, stdoutAppend, stderrAppend, osStdout, osStderr,
                 handler, oldStdout, oldStderr, tokVars>>

\* cmd.Run returns when the child has exited: executeCommand prints its
\* message on any error of Run, executeExternalWithRedirection ignores the
\* error and its deferred Close calls run
ChildExit ==
  /\ pc = "child"
  /\ \E status \in {0, 1} :
       errlog' = IF stdoutFile = <<>> /\ stderrFile = <<>> /\ status # 0
                 THEN Append(errlog, Msg("notfound", osStdout))
                 ELSE errlog
  /\ openFiles' = {}
  /\ pc' = "loop"
  /\ UNCHANGED <<exitKind, dirs, readerVars, fields, tokens, stdoutFile,
                 stderrFile, stdoutAppend, stderrAppend, osStdout, osStderr,
                 opened, spawned, handler, childOut, childErr, oldStdout,
                 oldStderr, openFailed, tokVars>>

\* ------------------------------------------------------- specifications
\* the whole program
Init ==
  /\ TokIdle
  /\ ShellStart
  /\ dirs \in EnvChoices

Next ==
  \/ PrintPrompt
  \/ StartRead
  \/ ReadError
  \/ ReadRetry
  \/ KeyInterrupt
  \/ KeyEnter
  \/ KeyBackspace
  \/ KeyDefault
  \/ KeyTab
  \/ ParseLine
  \/ Extract
  \/ ExecuteBuiltin
  \/ ExitHandler
  \/ HandlerReturn
  \/ ExecuteExternal
  \/ ChildExit

Spec == Init /\ [][Next]_vars

\* the reader's loop runs on: a read of an ended stream returns at once with
\* its error, and after a failed read the `continue` is taken. Nothing is
\* assumed about keys being pressed.
ReaderProgress ==
  /\ WF_vars(ReadError /\ eof)
  /\ WF_vars(ReadRetry)

\* the whole program with a reader that is scheduled
SpecLive == Init /\ [][Next]_vars /\ ReaderProgress

\* extraction and dispatch on every token sequence
InitDisp ==
  /\ TokIdle
  /\ ShellStart
  /\ dirs \in DispEnvChoices

NextDisp ==
  \/ PrintPrompt
  \/ DrawFields
  \/ Extract
  \/ ExecuteBuiltin
  \/ ExitHandler
  \/ HandlerReturn
  \/ ExecuteExternal
  \/ ChildExit

SpecDisp == InitDisp /\ [][NextDisp]_vars

\* the tokenizer on every line
InitTok ==
  /\ ShellStart
  /\ dirs = EnvEmpty
  /\ command \in SeqsUpTo(TokChars, MaxCmd)
  /\ i = 1
  /\ current = <<>>
  /\ result = <<>>
  /\ inSingleQuote = FALSE
  /\ inDoubleQuote = FALSE
  /\ escaped = FALSE
  /\ tpc = "scan"
  /\ retok = <<>>
  /\ reparsed = <<>>

NextTok ==
  \/ ParseLoop
  \/ ParseReturn
  \/ Retokenize

SpecTok == InitTok /\ [][NextTok]_vars

\* ================================================================ claims
\* ---- the token scan, told from the token sequence alone
StdoutOps == {OpOut, OpOut1, OpApp, OpApp1}
StderrOps == {OpErr, OpErrApp}
AppendOps == {OpApp, OpApp1, OpErrApp}
RedirOps == StdoutOps \cup StderrOps

\* the positions a left-to-right scan visits: an operator takes the token
\* after it as its target, which is then not visited
RECURSIVE ScanFrom(_, _)
ScanFrom(ts, k) ==
  IF k > Len(ts) THEN {}
  ELSE {k} \cup ScanFrom(ts, IF ts[k] \in RedirOps THEN k + 2 ELSE k + 1)

OperatorPositions(ts) == {k \in ScanFrom(ts, 1) : ts[k] \in RedirOps}
TargetPositions(ts) ==
  {k + 1 : k \in {j \in OperatorPositions(ts) : j + 1 <= Len(ts)}}

\* the scan reaches an operator that has no following token
DanglingOperator(ts) == Len(ts) \in OperatorPositions(ts)

RECURSIVE PickFrom(_, _, _)
PickFrom(ts, keep, k) ==
  IF k > Len(ts) THEN <<>>
  ELSE (IF k \in keep THEN <<ts[k]>> ELSE <<>>) \o PickFrom(ts, keep, k + 1)

\* the tokens at the positions of keep, in their order
Pick(ts, keep) == PickFrom(ts, keep, 1)

Count(ts, t) == Cardinality({k \in 1..Len(ts) : ts[k] = t})
Last(S) == CHOOSE k \in S : \A j \in S : j <= k

\* processRedirectionOperators has returned for the token sequence `tokens`
Extracted ==
  /\ pc \in {"loop", "dispatch", "handler", "child", "exited"}
  /\ tokens # <<>>

\* C1: a command that is no builtin and is not on the search path is
\* reported as "command not found" on the stderr target when one is set and
\* on the shell's error stream otherwise, never on standard output; nothing
\* is spawned and control is back at the top of the loop (the case of a
\* stderr target that cannot be opened is left out)
C1_NotFoundOnErrorStream ==
  ( /\ pc = "loop"
    /\ fields # <<>>
    /\ fields[1] \notin BuiltinNames
    /\ ~LookPath(fields[1], dirs)
    /\ \A k \in 1..Len(errlog) : errlog[k].msg \notin {"openout", "openerr"} )
  => /\ ~spawned
     /\ errlog = <<Msg("notfound", IF stderrFile # <<>>
                                   THEN File(stderrFile) ELSE TTYErr)>>

\* C2: when the scan reaches an operator with no following token, the
\* extraction returns no tokens and unset targets, the syntax error is
\* reported, and the loop starts over: no handler, no process, no file opened
C2_MissingTargetRejects ==
  (Extracted /\ DanglingOperator(tokens))
  => /\ fields = <<>>
     /\ stdoutFile = <<>>
     /\ stderrFile = <<>>
     /\ ~stdoutAppend
     /\ ~stderrAppend
     /\ errlog = <<Msg("syntax", TTYErr)>>
     /\ pc = "loop"
     /\ handler = <<>>
     /\ ~spawned
     /\ opened = <<>>
     /\ openFiles = {}

\* C2 witness: a rejected line whose earlier operator had a target
C2_Witness ==
  /\ pc = "loop"
  /\ tokens = <<WEcho, OpOut, WX, OpErrApp>>
  /\ errlog # <<>>

\* C3: on an accepted token sequence the target and the append flag of each
\* stream are those of the last operator of that stream
C3_LastOperatorWins ==
  (Extracted /\ ~DanglingOperator(tokens))
  => LET outs == {k \in OperatorPositions(tokens) : tokens[k] \in StdoutOps}
         errs == {k \in OperatorPositions(tokens) : tokens[k] \in StderrOps}
     IN /\ outs # {} =>
             /\ stdoutFile = tokens[Last(outs) + 1]
             /\ stdoutAppend = (tokens[Last(outs)] \in AppendOps)
        /\ errs # {} =>
             /\ stderrFile = tokens[Last(errs) + 1]
             /\ stderrAppend = (tokens[Last(errs)] \in AppendOps)

\* C4, as claimed: for any token sequence the remaining tokens are the
\* sequence without the operators and their targets, in order, and remaining
\* and consumed tokens together are the sequence as a multiset
C4_NoTokenLost ==
  Extracted
  => LET consumed == OperatorPositions(tokens) \cup TargetPositions(tokens)
         used == Pick(tokens, consumed)
     IN /\ fields = Pick(tokens, (1..Len(tokens)) \ consumed)
        /\ \A t \in DispTokens :
             Count(fields, t) + Count(used, t) = Count(tokens, t)

\* C4, amended: the same for every token sequence the extraction accepts
C4_NoTokenLostAccepted ==
  (Extracted /\ ~DanglingOperator(tokens)) => C4_NoTokenLost

\* C4 witness: an accepted line with operators between ordinary tokens
C4_Witness ==
  /\ Extracted
  /\ tokens = <<WEcho, OpApp, WX, WExit>>
  /\ fields = <<WEcho, WExit>>

\* ---- the tokenizer
\* parseCommand's loop is about to read the byte command[i]
AtByte == tpc = "scan" /\ i <= Len(command)

\* C5: inside double quotes a backslash contributes nothing by itself; the
\* byte after it contributes itself alone when it is $, backtick, double
\* quote, backslash or newline, and the backslash and itself otherwise; it
\* opens or closes no quoted region and ends no token
C5_DoubleQuoteEscape ==
  [][ /\ (AtByte /\ inDoubleQuote /\ ~escaped /\ command[i] = BS)
         => /\ escaped'
            /\ current' = current
            /\ result' = result
            /\ inDoubleQuote'
            /\ inSingleQuote' = inSingleQuote
      /\ (AtByte /\ inDoubleQuote /\ escaped)
         => /\ current' = IF command[i] \in {"$", BQ, DQ, BS, NL}
                           THEN current \o <<command[i]>>
                           ELSE current \o <<BS, command[i]>>
            /\ result' = result
            /\ inDoubleQuote'
            /\ inSingleQuote' = inSingleQuote
            /\ ~escaped' ]_vars

\* C5 witness: the line "\$" (in double quotes) has been tokenized
C5_Witness ==
  /\ tpc = "done"
  /\ command = <<DQ, BS, "$", DQ>>
  /\ result = << <<"$">> >>

\* C6: no token is empty, and an unquoted, unescaped space or tab ends the
\* current token and adds no token when there is none to end
C6_WhitespaceSeparates ==
  /\ [](\A k \in 1..Len(result) : result[k] # <<>>)
  /\ [][ (AtByte /\ command[i] \in {SP, TAB} /\ ~inSingleQuote
            /\ ~inDoubleQuote /\ ~escaped)
         => /\ current' = <<>>
            /\ result' = IF current # <<>> THEN Append(result, current)
                         ELSE result ]_vars

\* C7, as claimed: tokenizing a token the tokenizer returned gives that
\* token alone
C7_RetokenizeAny ==
  tpc = "retok" => reparsed = <<retok>>

\* C7, amended: the same for a returned token that holds no space, no
\* backslash and no quote
C7_RetokenizePlain ==
  ( /\ tpc = "retok"
    /\ \A k \in 1..Len(retok) : retok[k] \notin {SP, BS, SQ, DQ} )
  => reparsed = <<retok>>

\* C7 witness: a token of several plain bytes has been tokenized again
C7_Witness ==
  /\ tpc = "retok"
  /\ retok = <<"a", "$", "a">>
  /\ reparsed = <<retok>>

\* ---- the line reader
\* the names a buffer can be completed to, told from the builtin table and
\* the directories alone: the builtin names that extend the buffer, and the
\* names of the files that extend it when no builtin name does; an empty
\* buffer has none
Extends(n, b) == HasPrefix(n, b) /\ n # b

Candidates(b, ds) ==
  LET fromBuiltins == {n \in BuiltinNames : Extends(n, b)}
      fromFiles ==
        {n \in UNION {{ds[d].files[k].name :
                         k \in {j \in 1..Len(ds[d].files) :
                                  ~ds[d].files[j].isDir}} :
                      d \in {e \in 1..Len(ds) : ds[e].readable}} :
           Extends(n, b)}
  IN IF b = <<>> THEN {}
     ELSE IF fromBuiltins # {} THEN fromBuiltins ELSE fromFiles

\* the candidates share no byte after the buffer
NoCommonExtension(b, C) ==
  ~\E n \in C :
     /\ Len(n) > Len(b)
     /\ \A m \in C : Len(m) > Len(b) /\ m[Len(b) + 1] = n[Len(b) + 1]

\* two or more candidates whose longest common prefix is the buffer
Ambiguous(b, ds) ==
  /\ ~ContainsSpace(b)
  /\ Cardinality(Candidates(b, ds)) >= 2
  /\ NoCommonExtension(b, Candidates(b, ds))

\* s lists the elements of C in ascending order, each once
SortedListOf(s, C) ==
  /\ Len(s) = Cardinality(C)
  /\ \A n \in C : \E k \in 1..Len(s) : s[k] = n
  /\ \A k \in 1..(Len(s) - 1) : StrLess(s[k], s[k + 1])

\* C8: Tab on a buffer without a space that has exactly one candidate makes
\* the buffer that candidate and a space; what is inserted is not empty, the
\* Completion State is reset and no bell rings
C8_SingleCandidate ==
  [][ (KeyTab /\ ~ContainsSpace(input)
         /\ Cardinality(Candidates(input, dirs)) = 1)
      => LET c == CHOOSE n \in Candidates(input, dirs) : TRUE
         IN /\ input' = c \o <<SP>>
            /\ Len(c) > Len(input)
            /\ tabPressCount' = 0
            /\ lastTabPrefix' = <<>>
            /\ ~bell'
            /\ shown' = <<>> ]_vars

\* C8 witness: Tab has completed "ec" to "echo "
C8_Witness ==
  /\ pc = "reading"
  /\ lastKey = "tab"
  /\ prevInput = <<"e", "c">>
  /\ input = <<"e", "c", "h", "o", SP>>

\* the last key was Tab, pressed on the buffer as it still is
TabJustPressedHere == lastKey = "tab" /\ prevInput = input

\* C9: on a buffer with two or more candidates and nothing to extend, a Tab
\* that does not follow a Tab on that buffer rings the bell and shows
\* nothing, a Tab that follows one shows the sorted candidates and rings no
\* bell, and the buffer stays as it is
C9_BellThenList ==
  [][ (KeyTab /\ Ambiguous(input, dirs))
      => /\ input' = input
         /\ IF TabJustPressedHere
            THEN /\ ~bell'
                 /\ SortedListOf(shown', Candidates(input, dirs))
            ELSE /\ bell'
                 /\ shown' = <<>> ]_vars

\* C9 witness: the third Tab in a row on "e" shows echo and exit
C9_Witness ==
  /\ pc = "reading"
  /\ input = <<"e">>
  /\ tabPressCount = 3
  /\ shown = <<WEcho, WExit>>

\* C10: the terminal is in raw mode only while the line reader reads; it is
\* cooked when the process has ended and while a handler or a child runs
C10_RawOnlyWhileReading ==
  /\ termRaw => pc = "reading"
  /\ pc \in {"exited", "handler", "child"} => ~termRaw

\* C10 witness: the exit builtin has ended the process
C10_Witness ==
  /\ pc = "exited"
  /\ exitKind = "exit"
  /\ ~termRaw

C12_StreamsRestoredAtPrompt ==
  pc \in {"loop", "prompt"} =>
    /\ osStdout = TTYOut
    /\ osStderr = TTYErr
    /\ openFiles = {}

\* a builtin other than exit has run with both streams redirected and has
\* returned
C12_Witness ==
  /\ pc = "loop"
  /\ handler = WEcho
  /\ stdoutFile # <<>>
  /\ stderrFile # <<>>
  /\ opened = <<stdoutFile, stderrFile>>


\* ---------------------------------------------------------------- C13
\* C13: on a line of the form `command > file 2>&1` both the standard output
\* and the standard error of the command are redirected to the file, and the
\* token 2>&1 is not among the arguments passed to the command.
C13_DupRedirectsBoth ==
  (/\ Extracted
   /\ Len(tokens) = 4
   /\ tokens[1] \in {WEcho, WX}
   /\ tokens[2] \in {OpOut, OpOut1}
   /\ tokens[3] \in {WEcho, WX}
   /\ tokens[4] = TokDup)
  => /\ fields = <<tokens[1]>>
     /\ stdoutFile = tokens[3]
     /\ stderrFile = tokens[3]


\* ---------------------------------------------------------------- C14
\* C14: a Tab pressed on a buffer that is empty or contains a whitespace
\* character produces no suggestion, whatever the press count and whatever
\* builtin names and file names exist: nothing is inserted into the buffer
\* and no candidate list is shown.
C14_NoSuggestionOnWhitespace ==
  [][ (KeyTab /\ (input = <<>> \/ \E k \in 1..Len(input) : IsSpace(input[k])))
      => (input' = input /\ shown' = <<>>) ]_vars


\* ---------------------------------------------------------------- C15
\* C15: for every non-empty prefix and every press count, a candidate list
\* that completion returns is the ascending list, without duplicates, of the
\* strict extensions of the prefix among the builtin names when there is
\* one, and otherwise among the names of the non-directory entries of the
\* current directory and the search-path directories; completion returns no
\* list only when there is no candidate or when a first press finds several
\* candidates that share nothing beyond the prefix. The list shown by a
\* Tab press is that list.
C15_CandidateList ==
  /\ \A n \in 1..MaxTabs :
       input # <<>> =>
         LET r == autocomplete(input, n, dirs)
             C == Candidates(input, dirs)
         IN /\ r.matches # <<>> => SortedListOf(r.matches, C)
            /\ \A k \in 1..Len(r.matches) : Extends(r.matches[k], input)
            /\ r.matches = <<>> =>
                  \/ C = {}
                  \/ /\ n = 1
                     /\ Cardinality(C) >= 2
                     /\ NoCommonExtension(input, C)
  /\ shown # <<>> => SortedListOf(shown, Candidates(input, dirs))

\* the second Tab on "x" has listed the two file names that extend it, one
\* of which is met in two directories
C15_Witness ==
  /\ lastKey = "tab"
  /\ input = <<"x">>
  /\ dirs = EnvAmbiguous
  /\ shown = <<(<<"x", "c">>), (<<"x", "e">>)>>


\* ---------------------------------------------------------------- C16
IsPrefixOf(p, t) == Len(p) <= Len(t) /\ \A k \in 1..Len(p) : t[k] = p[k]

CommonPrefix(p, strs) == \A k \in 1..Len(strs) : IsPrefixOf(p, strs[k])

\* the strings at hand at the prompt: the file names of the environment and
\* their prefixes, the empty string among them
StringsAtHand ==
  LET names == UNION {{dirs[d].files[k].name : k \in 1..Len(dirs[d].files)} :
                      d \in 1..Len(dirs)}
  IN {<<>>} \cup UNION {{SubSeq(n, 1, j) : j \in 0..Len(n)} : n \in names}

\* the longest string that is a prefix of every element of the set C
LongestCommonPrefixOf(C) ==
  CHOOSE p \in UNION {{SubSeq(n, 1, k) : k \in 0..Len(n)} : n \in C} :
    /\ \A n \in C : IsPrefixOf(p, n)
    /\ \A n \in C : \A k \in 0..Len(n) :
         (\A m \in C : IsPrefixOf(SubSeq(n, 1, k), m)) => k <= Len(p)

\* C16: for every list of strings longestCommonPrefix returns a common
\* prefix of the elements that no common prefix exceeds in length, and the
\* empty string for the empty list; and a Tab on a buffer without a space
\* that has two or more candidates whose common prefix is strictly longer
\* than the buffer makes the buffer that common prefix, with no space added.
C16_LongestCommonPrefix ==
  /\ [](pc = "prompt" =>
         \A strs \in SeqsUpTo(StringsAtHand, 3) :
         LET p == longestCommonPrefix(strs)
         IN /\ strs = <<>> => p = <<>>
            /\ CommonPrefix(p, strs)
            /\ strs # <<>> =>
                 \A k \in 0..Len(strs[1]) :
                   CommonPrefix(SubSeq(strs[1], 1, k), strs) => k <= Len(p))
  /\ [][ (KeyTab /\ ~ContainsSpace(input)
            /\ Cardinality(Candidates(input, dirs)) >= 2
            /\ Len(LongestCommonPrefixOf(Candidates(input, dirs))) > Len(input))
         => input' = LongestCommonPrefixOf(Candidates(input, dirs)) ]_vars

\* Tab on "x" with the candidates xce and xcx has made the buffer "xc"
C16_Witness ==
  /\ lastKey = "tab"
  /\ prevInput = <<"x">>
  /\ input = <<"x", "c">>
  /\ dirs = EnvPartial


\* ---------------------------------------------------------------- C17
CompletionStateReset == tabPressCount = 0 /\ lastTabPrefix = <<>>

\* C17: while the shell runs, the Completion State is (empty prefix, 0)
\* after every key other than Tab, after every submitted line, after every
\* Tab on a buffer containing a space and after every Tab that changed the
\* buffer; whenever the counter is n >= 1 the last key was a Tab, the stored
\* prefix is the buffer and the last n keys were Tab presses that left this
\* buffer as it is; and the counter grows only by a Tab press that leaves
\* the buffer unchanged, by one, and beyond 1 only when the key before was
\* a Tab on the same buffer.
C17_CompletionState ==
  /\ [](lastKey \in {"rune", "backspace", "enter"} => CompletionStateReset)
  /\ [](pc \in {"line", "fields", "dispatch", "handler", "child", "loop",
                 "prompt"} => CompletionStateReset)
  /\ []((lastKey = "tab" /\ \E k \in 1..Len(prevInput) : prevInput[k] = SP)
          => CompletionStateReset)
  /\ []((lastKey = "tab" /\ input # prevInput) => CompletionStateReset)
  /\ []((exitKind # "interrupt" /\ tabPressCount >= 1)
          => /\ lastKey = "tab"
             /\ lastTabPrefix = input
             /\ prevInput = input
             /\ tabRun >= tabPressCount)
  /\ [][ tabPressCount' > tabPressCount
          => /\ KeyTab
             /\ input' = input
             /\ tabPressCount' = tabPressCount + 1
             /\ tabPressCount >= 1 => (lastKey = "tab" /\ prevInput = input)
       ]_vars

\* two Tab presses in a row on the same non-empty buffer
C17_Witness ==
  /\ pc = "reading"
  /\ tabPressCount = 2
  /\ lastTabPrefix = input
  /\ input # <<>>
  /\ tabRun = 2


\* ---------------------------------------------------------------- C18
\* C18: Backspace removes exactly the last character: pressed right after a
\* character was typed (of one byte or of several) it leaves the buffer as
\* it was before that character, and pressed on the empty buffer it leaves
\* the buffer empty.
C18_BackspaceUndoesTyping ==
  [][ /\ (KeyBackspace /\ lastKey = "rune") => input' = prevInput
      /\ (KeyBackspace /\ input = <<>>) => input' = <<>> ]_vars


\* ---------------------------------------------------------------- C19
\* C19: when the first token resolves to an external executable and no
\* target fails to open, the command has been spawned by the time control
\* is back at the top of the loop and no "command not found" message has
\* been written, whatever the exit status and whether or not a redirection
\* target is set.
C19_ResolvedNeverNotFound ==
  (/\ pc = "loop"
   /\ fields # <<>>
   /\ fields[1] \notin BuiltinNames
   /\ LookPath(fields[1], dirs)
   /\ openFailed = "none")
  => /\ spawned
     /\ \A k \in 1..Len(errlog) : errlog[k].msg # "notfound"


\* ---------------------------------------------------------------- C20
\* C20: the Line Reader terminates on a finite input stream: once the
\* stream has ended while a line is being read, the reader eventually
\* returns a line or ends the process.
C20_ReaderTerminates ==
  (pc = "reading" /\ eof) ~> (pc # "reading")

====
